---- MODULE Spec2Model ----
(***************************************************************************)
(* Submission evaluation and scoring engine of the CTF backend:            *)
(* POST /submission/<challenge_id>/ (submissions/views.py,                 *)
(* submissions/serializers.py) and the AI grading client                   *)
(* (submissions/llm.py, submissions/utils.py).                             *)
(*                                                                         *)
(* A Python string is a sequence of atoms; the atom " " is whitespace.     *)
(* Python None is the empty tuple, a present value x is <<x>>.             *)
(***************************************************************************)
EXTENDS Integers, Sequences, FiniteSets, TLC

\* ------------------------------------------------------------------ bounds
MaxSubs == 1
MaxTime == 1

\* ------------------------------------------------------- program constants
LLM_MAX_RETRIES == 2
SLEEP_TENTHS == 6
REPLY_LIMIT == 2000

None == <<>>
Some(x) == <<x>>

WS == " "

\* ------------------------------------------------------------ str helpers
RECURSIVE lstrip(_)
lstrip(s) == IF s # <<>> /\ Head(s) = WS THEN lstrip(Tail(s)) ELSE s

RECURSIVE rstrip(_)
rstrip(s) ==
  IF s # <<>> /\ s[Len(s)] = WS THEN rstrip(SubSeq(s, 1, Len(s) - 1)) ELSE s

strip(s) == rstrip(lstrip(s))


Contains(s, t) ==
  \E i \in 1..(Len(s) - Len(t) + 1) : SubSeq(s, i, i + Len(t) - 1) = t

\* ---------------------------------------------------------------- catalog
Users == {"u1", "u2", "u3", "a1"}

\* User.id and User.username (unique, case-sensitively)
user_id ==
  [u \in Users |->
    CASE u = "u1" -> 2 [] u = "u2" -> 1 [] u = "u3" -> 4 [] OTHER -> 3]
username ==
  [u \in Users |->
    CASE u = "u1" -> <<"B">> [] u = "u2" -> <<"a">> [] u = "u3" -> <<"b", "b">>
      [] OTHER -> <<"b">>]

\* User.role.name, None for a user without a role
role ==
  [u \in Users |->
    CASE u = "u1" -> Some("student") [] u = "u2" -> None
      [] u = "u3" -> Some("student") [] OTHER -> Some("admin")]

\* User.is_admin()
is_admin(u) == role[u] # None /\ role[u][1] = "admin"

ChallengeIds == 1..9
NoSuchChallenge == 0

Score(f, p) == Some([flag_score |-> f, procedure_score |-> p])

Challenge0 ==
  [c \in ChallengeIds |->
    CASE c = 1 -> [question_type |-> "practice", solution_type |-> <<"flag">>,
                   group_only |-> FALSE, challenge_score |-> Score(5, 0)]
      [] c = 2 -> [question_type |-> "practice", solution_type |-> <<"procedure">>,
                   group_only |-> FALSE, challenge_score |-> Score(0, 3)]
      [] c = 3 -> [question_type |-> "competition",
                   solution_type |-> <<"flag and procedure">>,
                   group_only |-> FALSE, challenge_score |-> Score(2, 2)]
      [] c = 4 -> [question_type |-> "competition",
                   solution_type |-> <<"flag and procedure">>,
                   group_only |-> FALSE, challenge_score |-> Score(1, 1)]
      [] c = 5 -> [question_type |-> "competition",
                   solution_type |-> <<"flag and procedure">>,
                   group_only |-> FALSE, challenge_score |-> Score(1, 1)]
      [] c = 6 -> [question_type |-> "competition",
                   solution_type |-> <<"flag and procedure">>,
                   group_only |-> TRUE, challenge_score |-> None]
      [] c = 7 -> [question_type |-> "competition", solution_type |-> <<"both">>,
                   group_only |-> FALSE, challenge_score |-> Score(1, 1)]
      [] c = 8 -> [question_type |-> "practice", solution_type |-> <<"flag">>,
                   group_only |-> FALSE, challenge_score |-> None]
      [] OTHER -> [question_type |-> "practice", solution_type |-> <<"flag">>,
                   group_only |-> TRUE, challenge_score |-> Score(4, 0)]]

FLAG == <<"a", "A">>
TEXT == <<"s", "t">>

\* FlagSolution rows (value, challenges); value is unique
FlagSolution == {[value |-> FLAG, challenges |-> {1, 3, 4, 5, 6, 8, 9}]}

\* TextSolution rows (content, challenges)
TextSolution == {[content |-> TEXT, challenges |-> {2, 3, 4, 5}]}

\* Contest ids; deleted: the row does not exist (deleted, or not yet created)
ContestIds == {"k1", "k2", "k3", "k4"}

Contest0 ==
  [k \in ContestIds |->
    CASE k = "k1" -> [is_active |-> TRUE, start_time |-> 0, end_time |-> 1,
                      challenges |-> {3, 5}, deleted |-> FALSE]
      [] k = "k2" -> [is_active |-> FALSE, start_time |-> 0, end_time |-> 1,
                      challenges |-> {5, 7}, deleted |-> FALSE]
      [] k = "k3" -> [is_active |-> TRUE, start_time |-> 0, end_time |-> 1,
                      challenges |-> {6}, deleted |-> FALSE]
      [] OTHER    -> [is_active |-> TRUE, start_time |-> 0, end_time |-> 1,
                      challenges |-> {}, deleted |-> TRUE]]

\* Contest.group_only and Contest.publish_result, the columns the serializers
\* and views read
Contest_group_only == [k \in ContestIds |-> k = "k3"]
Contest_publish_result == [k \in ContestIds |-> k # "k2"]

VARIABLES
  submissions,   \* committed rows of the four submission tables, in write order
  Challenge,     \* Challenge rows
  Contest,       \* Contest rows, with the challenges linked to each
  now,           \* timezone.now()
  pc,            \* "idle", or "llm" while call_coach_llm is in its loop
  req,           \* the request being served while pc = "llm"
  call,          \* the running call_coach_llm: attempt, last_err, requests, sleeps
  grade,         \* outcome of the last call_coach_llm call
  resp,          \* last HTTP response of the submission endpoints
  view,          \* last HTTP response of the other endpoints
  Group,         \* Group rows
  UserGroup,     \* UserGroup rows (memberships)
  GroupInvitation, \* GroupInvitation rows, one per group and invited user
  accepting      \* invitations whose accept_invitation transaction is open

\* the tables of the groups app and the open transactions on them
groups == <<Group, UserGroup, GroupInvitation, accepting>>

vars ==
  <<submissions, Challenge, Contest, now, pc, req, call, grade, resp, view, groups>>

\* user.group_membership.group (UserGroup.user is one-to-one), None for a user
\* without a membership
group_membership ==
  [u \in Users |->
    IF \E m \in UserGroup : m.user = u
      THEN Some((CHOOSE m \in UserGroup : m.user = u).group)
    ELSE None]

\* ------------------------------------------------------- Python values
PyBool(b) == [t |-> "bool", s |-> <<>>, b |-> b]
PyStr(s) == [t |-> "str", s |-> s, b |-> FALSE]
PyNone == [t |-> "none", s |-> <<>>, b |-> FALSE]

\* truth value of a Python object: False, None and "" are falsy
Truthy(x) ==
  CASE x.t = "bool" -> x.b
    [] x.t = "str" -> x.s # <<>>
    [] OTHER -> FALSE

lower(s) ==
  [i \in 1..Len(s) |->
    CASE s[i] = "A" -> "a" [] s[i] = "B" -> "b" [] OTHER -> s[i]]

\* ---------------------------------------------------- request body fields
\* serializers.CharField(required=False, allow_blank=False): the field is
\* trimmed; a value that is blank after trimming is a field error
CharField(raw) ==
  IF raw = None THEN [error |-> FALSE, attr |-> None]
  ELSE IF strip(raw[1]) = <<>> THEN [error |-> TRUE, attr |-> None]
  ELSE [error |-> FALSE, attr |-> Some(strip(raw[1]))]

Denied(code, detail) == [denied |-> TRUE, code |-> code, detail |-> detail]
Allowed == [denied |-> FALSE, code |-> 0, detail |-> "ok"]

\* allowed submission kinds of a SolutionType.type label
allowed(sol_label) ==
  CASE sol_label = <<"flag">> -> {"flag"}
    [] sol_label = <<"procedure">> -> {"procedure"}
    [] sol_label = <<"flag and procedure">> -> {"flag", "procedure"}
    [] OTHER -> {}

KnownLabel(sol_label) ==
  sol_label \in {<<"flag">>, <<"procedure">>, <<"flag and procedure">>}

validate_kinds_value_only(c, value, content) ==
  LET sol_label == lower(strip(Challenge[c].solution_type))
  IN  IF ~KnownLabel(sol_label)
        THEN Denied(403, "solution_type unknown")
      ELSE IF value # None /\ "flag" \notin allowed(sol_label)
        THEN Denied(400, "does not accept flag submissions")
      ELSE Allowed

\* the kind checks shared by both serializers' validate()
validate_kinds(c, value, content) ==
  LET sol_label == lower(strip(Challenge[c].solution_type))
  IN  IF ~KnownLabel(sol_label)
        THEN Denied(403, "solution_type unknown")
      ELSE IF value # None /\ "flag" \notin allowed(sol_label)
        THEN Denied(400, "does not accept flag submissions")
      ELSE IF content # None /\ "procedure" \notin allowed(sol_label)
        THEN Denied(400, "does not accept procedure submissions")
      ELSE Allowed

\* ChallengeSubmissionSerializer.validate
validate(c, value, content) ==
  IF value = None /\ content = None
    THEN Denied(400, "provide at least one of value or content")
  ELSE validate_kinds(c, value, content)

\* GroupChallengeSubmissionSerializer.validate
group_validate(u, c, value, content) ==
  IF value = None /\ content = None
    THEN Denied(400, "provide at least one of value or content")
  ELSE IF ~\E k \in ContestIds : c \in Contest[k].challenges /\ Contest_group_only[k]
    THEN Denied(403, "not a group-only challenge")
  ELSE IF group_membership[u] = None
    THEN Denied(403, "must join a group")
  ELSE validate_kinds(c, value, content)

_get_contest_for_challenge_first(c) ==
  LET contests_qs == {k \in ContestIds : c \in Contest[k].challenges}
      contest == CHOOSE k \in contests_qs : TRUE
  IN  IF Challenge[c].question_type # "competition" \/ contests_qs = {}
        THEN [denied |-> FALSE, detail |-> "ok", contest |-> None]
      ELSE [denied |-> FALSE, detail |-> "ok", contest |-> Some(contest)]

\* _get_contest_for_challenge of both serializers
_get_contest_for_challenge(c) ==
  LET contests_qs == {k \in ContestIds : c \in Contest[k].challenges}
      count == Cardinality(contests_qs)
      contest == CHOOSE k \in contests_qs : TRUE
      no(detail) == [denied |-> TRUE, detail |-> detail, contest |-> None]
  IN  IF Challenge[c].question_type # "competition"
        THEN [denied |-> FALSE, detail |-> "ok", contest |-> None]
      ELSE IF count = 0 THEN no("not linked to any contest")
      ELSE IF count > 1 THEN no("linked to multiple contests")
      ELSE IF ~Contest[contest].is_active THEN no("contest is not active")
      ELSE IF ~(Contest[contest].start_time <= now /\ now <= Contest[contest].end_time)
        THEN no("contest is not accepting submissions")
      ELSE [denied |-> FALSE, detail |-> "ok", contest |-> Some(contest)]

_check_flag_correct_iexact(c, value) ==
  LET normalized == strip(value)
  IN  \E f \in FlagSolution : c \in f.challenges /\ lower(f.value) = lower(normalized)

\* _check_flag_correct of both serializers
_check_flag_correct(c, value) ==
  LET normalized == strip(value)
  IN  \E f \in FlagSolution : c \in f.challenges /\ f.value = normalized

\* _get_status_for_result of ChallengeSubmissionSerializer and
\* GroupChallengeSubmissionSerializer
_get_status_for_result(is_correct) ==
  IF Truthy(is_correct) THEN "correct"
  ELSE IF is_correct.t = "str" /\ is_correct.s = <<"incorrect">> THEN "incorrect"
  ELSE "pending"

\* SolutionUtils.get_text_solution_for_challenge(ch)["value"]
get_text_solution_for_challenge(c) ==
  LET qs == {t \in TextSolution : c \in t.challenges}
  IN  IF qs = {} THEN None ELSE Some((CHOOSE t \in qs : TRUE).content)

\* ------------------------------------------------------ AI grading client
\* JSON values a model may put under "score"
JInt(n) == [t |-> "int", v |-> n]
JFloat(n) == [t |-> "float", v |-> n]      \* a float whose integer part is n
JNumStr(n) == [t |-> "numstr", v |-> n]    \* the decimal string of n
JText == [t |-> "text", v |-> 0]           \* a string that is no integer
JNull == [t |-> "null", v |-> 0]           \* null, or the key is missing

\* int(x): [ok, v]; a float is truncated, a decimal string parsed
int(x) ==
  IF x.t \in {"int", "float", "numstr"} THEN [ok |-> TRUE, v |-> x.v]
  ELSE [ok |-> FALSE, v |-> 0]

_clamp_score_no_upper(score, max_score) ==
  LET s == IF int(score).ok THEN int(score).v ELSE 0
  IN  IF s < 0 THEN 0 ELSE s

_clamp_score(score, max_score) ==
  LET s == IF int(score).ok THEN int(score).v ELSE 0
  IN  IF s < 0 THEN 0
      ELSE IF s > max_score THEN max_score
      ELSE s

\* the dataclass constructor: all four fields are required
Raised(exc) ==
  [out |-> "raised", exc |-> exc, reply |-> <<>>, score |-> 0, max_score |-> 0,
   status |-> <<>>]

ScoreAnalyser(kw) ==
  IF {"reply", "score", "max_score", "status"} \subseteq DOMAIN kw
    THEN [out |-> "returned", exc |-> "", reply |-> kw.reply, score |-> kw.score,
          max_score |-> kw.max_score, status |-> kw.status]
  ELSE Raised("TypeError")

NoGrade ==
  [out |-> "none", exc |-> "", reply |-> <<>>, score |-> 0, max_score |-> 0,
   status |-> <<>>]

\* Raw provider text, by its shape: kind is "blank", "prose" (no JSON object in
\* it), "array" (JSON, not an object), "emptyobject" ({}), "object" (a JSON
\* object) or "embedded" (a JSON object inside other text)
safe_extract_json_from_text(text) ==
  IF text.kind \in {"object", "embedded"} THEN Some(text.obj) ELSE None

\* the body of the try block once generate_text has returned raw_text
parse_reply(raw_text, ms) ==
  LET obj == safe_extract_json_from_text(raw_text)
      o == obj[1]
      reply0 == strip(IF o.reply = None THEN <<>> ELSE o.reply[1])
      score == _clamp_score(o.score, ms)
      status == strip(IF o.status = None THEN <<>> ELSE o.status[1])
      reply1 == IF reply0 = <<>> THEN <<"Share more details about your approach">>
                ELSE reply0
      reply == IF Len(reply1) > REPLY_LIMIT
                 THEN rstrip(SubSeq(reply1, 1, REPLY_LIMIT)) \o <<"...">>
               ELSE reply1
  IN  IF obj = None
        THEN ScoreAnalyser([reply |-> <<"I could not format the evaluation properly">>,
                            score |-> 0, max_score |-> ms, status |-> <<"pending">>])
      ELSE ScoreAnalyser([reply |-> reply, score |-> score, max_score |-> ms,
                          status |-> status])

\* the returns after the retry loop
fallback(last_err, ms) ==
  IF last_err = "rate_limited"
    THEN ScoreAnalyser([reply |-> <<"Too many requests right now">>, score |-> 0,
                        max_score |-> ms])
  ELSE IF last_err = "timeout"
    THEN ScoreAnalyser([reply |-> <<"The AI took too long to respond">>, score |-> 0,
                        max_score |-> ms])
  ELSE ScoreAnalyser([reply |-> <<"AI feedback is temporarily unavailable">>,
                      score |-> 0, max_score |-> ms])

\* OpenAIClient.generate_text / GeminiClient.generate_text: the code of the
\* LLMTransientError raised for an SDK exception with this class name
\* (lower-cased, as words) and message
transient_code(name, msg) ==
  IF Contains(name, <<"timeout">>) THEN "timeout"
  ELSE IF Contains(name, <<"rate">>) \/ Contains(msg, <<"429">>) THEN "rate_limited"
  ELSE "transient"

\* ------------------------------------------------------------------ inputs
RawValues ==
  {None, Some(FLAG), Some(<<" ", "a", "A", " ">>), Some(<<"a", "a">>),
   Some(<<"a", " ", "A">>), Some(<<" ">>)}

RawContents == {None, Some(<<" ", "x">>)}

Replies == {None, Some(<<"try", "s", "t", " ">>)}

Scores == {JInt(-5), JInt(99999), JFloat(2), JNumStr(1), JText, JNull}

Statuses == {None, Some(<<"correct">>), Some(<<"incorrect">>), Some(<<" ">>)}

\* JSON objects a model may answer with: each field varied on its own
Objs ==
  {[reply |-> r, score |-> JInt(1), status |-> Some(<<"correct">>)] : r \in Replies}
  \cup {[reply |-> None, score |-> n, status |-> Some(<<"incorrect">>)] : n \in Scores}
  \cup {[reply |-> None, score |-> JInt(1), status |-> st] : st \in Statuses}

NoObj == [reply |-> None, score |-> JNull, status |-> None]

RawTexts ==
  {[kind |-> k, obj |-> NoObj] : k \in {"blank", "prose", "array", "emptyobject"}}
  \cup {[kind |-> "object", obj |-> o] : o \in Objs}
  \cup {[kind |-> "embedded", obj |-> [NoObj EXCEPT !.score = JInt(1)]]}

\* exceptions of the provider SDK: class name (lower-cased words) and message
SdkErrors ==
  {[name |-> <<"api", "timeout", "error">>, msg |-> <<"timed", "out">>],
   [name |-> <<"rate", "limit", "error">>, msg |-> <<"too", "many">>],
   [name |-> <<"api", "status", "error">>, msg |-> <<"429">>],
   [name |-> <<"authentication", "error">>, msg |-> <<"401">>]}

\* request.user and the pk of POST /submission/<pk>/: the group member on every
\* challenge and on an unknown pk, the user without a group on a practice and
\* on the group-only challenges
SubmitTargets ==
  ({"u1"} \X (ChallengeIds \cup {NoSuchChallenge})) \cup ({"u2"} \X {1, 6, 9})

\* challenge_id and contest_id of the body of POST /flag-submissions/
FlagSubmissionTargets ==
  {<<NoSuchChallenge, None>>, <<1, None>>, <<2, None>>, <<7, None>>,
   <<1, Some("k1")>>, <<3, Some("k1")>>, <<3, Some("k3")>>, <<7, Some("k2")>>}

\* ------------------------------------------------------------------- state
NoReq ==
  [endpoint |-> "", user |-> "", group |-> None, serializer |-> "",
   challenge |-> NoSuchChallenge,
   contest |-> None, raw_value |-> None, raw_content |-> None, content |-> <<>>,
   txn |-> <<>>, ms |-> 0]

NoCall ==
  [attempt |-> 0, last_err |-> "", requests |-> 0, sleeps |-> <<>>, last_exc |-> <<>>]

NoResp ==
  [endpoint |-> "", user |-> "", code |-> 0, detail |-> "",
   challenge |-> NoSuchChallenge,
   raw_value |-> None, raw_content |-> None, wrote |-> <<>>]

NoQuery == [lb_type |-> "", contest |-> None, search |-> <<>>, page |-> 0]

\* the groups and memberships at the start: u1 created g1 and is its admin
GroupIds == {"g1", "g2"}

Group0 ==
  [g \in GroupIds |->
    IF g = "g1" THEN [exists |-> TRUE, name |-> <<"A">>, max_members |-> 2]
    ELSE [exists |-> FALSE, name |-> <<>>, max_members |-> 0]]

UserGroup0 == {[user |-> "u1", group |-> "g1", is_admin |-> TRUE]}

NoView ==
  [endpoint |-> "", user |-> "", code |-> 0, results |-> <<>>, data |-> {},
   query |-> NoQuery]

Init ==
  /\ submissions = <<>>
  /\ Challenge = Challenge0
  /\ Contest = Contest0
  /\ now = 0
  /\ pc = "idle"
  /\ req = NoReq
  /\ call = NoCall
  /\ grade = NoGrade
  /\ resp = NoResp
  /\ view = NoView
  /\ Group = Group0
  /\ UserGroup = UserGroup0
  /\ GroupInvitation = {}
  /\ accepting = {}

Row(table, ctx, value, status, score) ==
  [table |-> table, user |-> ctx.user, group |-> ctx.group,
   challenge |-> ctx.challenge, contest |-> ctx.contest, value |-> value,
   status |-> status, score |-> score, submitted_at |-> now]

\* the FLAG block of create(): the row it writes
flag_row(ctx, value0) ==
  LET value == strip(value0)
      is_correct == _check_flag_correct(ctx.challenge, value)
      status_obj == _get_status_for_result(PyBool(is_correct))
      cs == Challenge[ctx.challenge].challenge_score
      flag_score ==
        IF ctx.serializer = "user"
          THEN (IF cs[1].flag_score = 0 THEN 1 ELSE cs[1].flag_score)
        ELSE (IF cs = None THEN 0 ELSE cs[1].flag_score)
      user_score == IF is_correct THEN flag_score ELSE 0
  IN  Row(IF ctx.serializer = "user" THEN "UserFlagSubmission"
          ELSE "GroupFlagSubmission", ctx, value, status_obj, user_score)

\* _get_status_for_result of BaseSubmissionSerializer
BaseSubmissionSerializer_get_status_for_result(is_correct) ==
  IF is_correct THEN "correct" ELSE "incorrect"

\* FlagSubmissionSerializer.create: the row it writes; user_score keeps the
\* column's default
FlagSubmissionSerializer_create(ctx, value0) ==
  LET value == strip(value0)
      is_correct == \E f \in FlagSolution :
                      ctx.challenge \in f.challenges /\ f.value = value
      status == BaseSubmissionSerializer_get_status_for_result(is_correct)
  IN  Row("UserFlagSubmission", ctx, value, status, 0)

\* the max_score the PROCEDURE block passes to call_coach_llm
procedure_max_score(ser, c) ==
  LET cs == Challenge[c].challenge_score
  IN  IF ser = "user"
        THEN (IF cs[1].procedure_score = 0 THEN 1 ELSE cs[1].procedure_score)
      ELSE (IF cs = None THEN 0 ELSE cs[1].procedure_score)

\* the PROCEDURE block of create() after the grading call: the row it writes;
\* g is the call's outcome, score_analyser is None unless it returned
procedure_row(ctx, g) ==
  LET user_score == IF g.out = "returned" THEN g.score ELSE 0
      user_submission_status == IF g.out = "returned" THEN PyStr(g.status) ELSE PyNone
      status_obj == _get_status_for_result(user_submission_status)
  IN  Row(IF ctx.serializer = "user" THEN "UserTextSubmission"
          ELSE "GroupTextSubmission", ctx, ctx.content, status_obj, user_score)

Response(code, detail, ctx, wrote) ==
  [endpoint |-> ctx.endpoint, user |-> ctx.user, code |-> code, detail |-> detail,
   challenge |-> ctx.challenge,
   raw_value |-> ctx.raw_value, raw_content |-> ctx.raw_content, wrote |-> wrote]

\* a request that ends without a row: 4xx, or 500 with the transaction rolled back
Reject(code, detail, ctx) ==
  /\ resp' = Response(code, detail, ctx, <<>>)
  /\ grade' = NoGrade
  /\ call' = NoCall
  /\ UNCHANGED <<submissions, Challenge, Contest, now, groups, pc, req, view>>

Commit_first_row_only(ctx, rows, g, c) ==
  /\ submissions' = submissions \o SubSeq(rows, 1, 1)
  /\ resp' = Response(201, "created", ctx, SubSeq(rows, 1, 1))
  /\ grade' = g
  /\ call' = c
  /\ pc' = "idle"
  /\ req' = NoReq
  /\ UNCHANGED <<Challenge, Contest, now, groups, view>>

\* create() returns: the transaction commits and the view renders the response.
\* The user serializer puts the SubmissionStatus object itself under "status" of
\* a procedure result, which the JSON renderer cannot encode
Commit(ctx, rows, g, c) ==
  /\ IF ctx.contest # None /\ Contest[ctx.contest[1]].deleted
       THEN /\ submissions' = submissions
            /\ resp' = Response(500, "contest row is gone", ctx, <<>>)
     ELSE /\ submissions' = submissions \o rows
          /\ resp' = Response(IF ctx.serializer = "user" /\ ctx.raw_content # None
                                THEN 500 ELSE 201,
                              IF ctx.serializer = "user" /\ ctx.raw_content # None
                                THEN "response not serializable" ELSE "created",
                              ctx, rows)
  /\ grade' = g
  /\ call' = c
  /\ pc' = "idle"
  /\ req' = NoReq
  /\ UNCHANGED <<Challenge, Contest, now, groups, view>>

\* ----------------------------------------------------------------- actions
\* ChallengeSubmissionViewSet.create up to the response, or up to the first
\* provider request of call_coach_llm.  client_ok: get_llm_client could build
\* the provider client (its API key is set, the provider name is known)
Submit(u, c, rv, rc) ==
  /\ pc = "idle"
  /\ Len(submissions) < MaxSubs
  /\ LET fv == CharField(rv)
         fc == CharField(rc)
         ser == IF Challenge[c].group_only THEN "group" ELSE "user"
         ctx0 == [endpoint |-> "submission", user |-> u, group |-> None,
                  serializer |-> "",
                  challenge |-> c, contest |-> None, raw_value |-> rv,
                  raw_content |-> rc,
                  content |-> IF fc.attr = None THEN <<>> ELSE fc.attr[1],
                  txn |-> <<>>, ms |-> 0]
         v == IF ser = "group" THEN group_validate(u, c, fv.attr, fc.attr)
              ELSE validate(c, fv.attr, fc.attr)
         gc == _get_contest_for_challenge(c)
         ctx == [ctx0 EXCEPT !.serializer = ser, !.contest = gc.contest,
                             !.group = IF ser = "group" THEN group_membership[u]
                                       ELSE None]
         rows == IF fv.attr = None THEN <<>> ELSE <<flag_row(ctx, fv.attr[1])>>
         exact_val == get_text_solution_for_challenge(c)
         ms == IF procedure_max_score(ser, c) < 0 THEN 0
               ELSE procedure_max_score(ser, c)
     IN  IF c \notin ChallengeIds THEN Reject(404, "challenge not found", ctx0)
         ELSE IF fv.error \/ fc.error THEN Reject(400, "field may not be blank", ctx0)
         ELSE IF v.denied THEN Reject(v.code, v.detail, ctx0)
         ELSE IF gc.denied THEN Reject(403, gc.detail, ctx0)
         ELSE IF ser = "user" /\ Challenge[c].challenge_score = None
           THEN Reject(500, "challenge has no challenge_score", ctx0)
         ELSE IF fc.attr = None THEN Commit(ctx, rows, NoGrade, NoCall)
         ELSE IF exact_val = None
           THEN Commit(ctx, rows \o <<procedure_row(ctx, NoGrade)>>, NoGrade, NoCall)
         ELSE IF strip(ctx.content) = <<>>
           THEN Commit(ctx,
                       rows \o <<procedure_row(ctx, ScoreAnalyser(
                         [reply |-> <<"Please provide your solution attempt">>,
                          score |-> 0, max_score |-> 0]))>>,
                       ScoreAnalyser(
                         [reply |-> <<"Please provide your solution attempt">>,
                          score |-> 0, max_score |-> 0]), NoCall)
         ELSE \E client_ok \in BOOLEAN :
           IF ~client_ok
             THEN Commit(ctx, rows \o <<procedure_row(ctx, Raised("RuntimeError"))>>,
                         Raised("RuntimeError"), NoCall)
           ELSE /\ pc' = "llm"
                /\ req' = [ctx EXCEPT !.txn = rows, !.ms = ms]
                /\ call' = NoCall
                /\ grade' = NoGrade
                /\ resp' = NoResp
                /\ UNCHANGED <<submissions, Challenge, Contest, now, groups, view>>

\* FlagSubmissionViewSet.create (POST /flag-submissions/): the fields are
\* validated, then _get_challenge_and_contest and the solution_type check of
\* FlagSubmissionSerializer.validate, then create.  k is the body's contest_id
FlagSubmissionCreate(u, c, rv, k) ==
  /\ pc = "idle"
  /\ Len(submissions) < MaxSubs
  /\ LET fv == CharField(rv)
         ctx == [endpoint |-> "flag-submissions", user |-> u, group |-> None,
                 serializer |-> "flag", challenge |-> c, contest |-> k,
                 raw_value |-> rv, raw_content |-> None, content |-> <<>>,
                 txn |-> <<>>, ms |-> 0]
     IN  IF fv.error THEN Reject(400, "field may not be blank", ctx)
         ELSE IF fv.attr = None THEN Reject(400, "field is required", ctx)
         ELSE IF c \notin ChallengeIds THEN Reject(404, "challenge not found", ctx)
         ELSE IF k # None /\ Contest[k[1]].deleted
           THEN Reject(404, "contest not found", ctx)
         ELSE IF k # None /\ c \notin Contest[k[1]].challenges
           THEN Reject(400, "challenge is not part of the contest", ctx)
         ELSE IF k # None /\ ~(Contest[k[1]].start_time <= now
                                /\ now <= Contest[k[1]].end_time)
           THEN Reject(400, "contest is not accepting submissions", ctx)
         ELSE IF lower(Challenge[c].solution_type) \notin {<<"flag">>, <<"both">>}
           THEN Reject(400, "challenge does not accept flag submissions", ctx)
         ELSE Commit(ctx, <<FlagSubmissionSerializer_create(ctx, fv.attr[1])>>,
                     NoGrade, NoCall)

\* one pass of the retry loop in which client.generate_text returns raw_text
GenerateTextReturns(raw_text) ==
  /\ pc = "llm"
  /\ LET g == parse_reply(raw_text, req.ms)
     IN  Commit(req, req.txn \o <<procedure_row(req, g)>>, g, NoCall)

GenerateTextRaises_one_more(e) ==
  /\ pc = "llm"
  /\ LET code == transient_code(e.name, e.msg)
         g == fallback(code, req.ms)
     IN  IF call.attempt <= LLM_MAX_RETRIES
           THEN /\ call' = [attempt |-> call.attempt + 1, last_err |-> code,
                            requests |-> call.requests + 1,
                            sleeps |-> Append(call.sleeps,
                                              SLEEP_TENTHS * (call.attempt + 1)),
                            last_exc |-> e.name]
                /\ UNCHANGED <<submissions, Challenge, Contest, now, groups, pc, req, grade, resp, view>>
         ELSE Commit(req, req.txn \o <<procedure_row(req, g)>>, g, NoCall)

\* one pass of the retry loop in which the SDK call raises e: the adapter
\* raises LLMTransientError, the loop sleeps and retries or breaks
GenerateTextRaises(e) ==
  /\ pc = "llm"
  /\ LET code == transient_code(e.name, e.msg)
         g == fallback(code, req.ms)
     IN  IF call.attempt < LLM_MAX_RETRIES
           THEN /\ call' = [attempt |-> call.attempt + 1, last_err |-> code,
                            requests |-> call.requests + 1,
                            sleeps |-> Append(call.sleeps,
                                              SLEEP_TENTHS * (call.attempt + 1)),
                            last_exc |-> e.name]
                /\ UNCHANGED <<submissions, Challenge, Contest, now, groups, pc, req, grade, resp, view>>
         ELSE Commit(req, req.txn \o <<procedure_row(req, g)>>, g, NoCall)

\* the rows of s other than those at the positions in D, in order
RECURSIVE Without(_, _)
Without(s, D) ==
  IF s = <<>> THEN <<>>
  ELSE Without(SubSeq(s, 1, Len(s) - 1), D)
         \o (IF Len(s) \in D THEN <<>> ELSE <<s[Len(s)]>>)

\* FlagSubmissionViewSet.get_queryset: user.role is a Role row, never equal to
\* the string "admin", so every caller sees only the caller's own rows
FlagSubmissionQueryset(u) ==
  {i \in 1..Len(submissions) :
     submissions[i].table = "UserFlagSubmission" /\ submissions[i].user = u}

View(endpoint, u, code, results, data) ==
  [endpoint |-> endpoint, user |-> u, code |-> code, results |-> results,
   data |-> data, query |-> NoQuery]

\* DELETE /flag-submissions/<pk>/ (ModelViewSet.destroy); i is the row of pk
FlagSubmissionDestroy(u, i) ==
  /\ i \in 1..Len(submissions)
  /\ IF i \in FlagSubmissionQueryset(u)
       THEN /\ submissions' = Without(submissions, {i})
            /\ view' = View("flag-submissions", u, 204, <<>>, {})
     ELSE /\ view' = View("flag-submissions", u, 404, <<>>, {})
          /\ UNCHANGED submissions
  /\ UNCHANGED <<Challenge, Contest, now, groups, pc, req, call, grade, resp>>

\* PUT /flag-submissions/<pk>/ (ModelViewSet.update): the body is validated as
\* for a create, then ModelSerializer.update sets challenge_id, contest_id and
\* value on the row and saves it; the status is left as it was
FlagSubmissionUpdate(u, i, c, rv, k) ==
  /\ i \in 1..Len(submissions)
  /\ LET fv == CharField(rv)
         ok == /\ i \in FlagSubmissionQueryset(u)
               /\ ~fv.error /\ fv.attr # None
               /\ c \in ChallengeIds
               /\ k # None => /\ ~Contest[k[1]].deleted
                              /\ c \in Contest[k[1]].challenges
                              /\ Contest[k[1]].start_time <= now
                              /\ now <= Contest[k[1]].end_time
               /\ lower(Challenge[c].solution_type) \in {<<"flag">>, <<"both">>}
     IN  IF ok
           THEN /\ submissions' =
                     [submissions EXCEPT ![i] =
                        [@ EXCEPT !.challenge = c, !.contest = k,
                                  !.value = fv.attr[1]]]
                /\ view' = View("flag-submissions", u, 200, <<>>, {})
         ELSE /\ view' = View("flag-submissions", u,
                              IF i \in FlagSubmissionQueryset(u) THEN 400 ELSE 404,
                              <<>>, {})
              /\ UNCHANGED submissions
  /\ UNCHANGED <<Challenge, Contest, now, groups, pc, req, call, grade, resp>>

\* challenges of C that are linked to no contest of K get question_type "N/A"
Orphaned(C, K) ==
  [c \in DOMAIN Challenge |->
    IF c \in C /\ \A k \in ContestIds : c \notin K[k].challenges
      THEN [Challenge[c] EXCEPT !.question_type = "N/A"]
    ELSE Challenge[c]]

\* DELETE /challenges/contests/<k>/ (ContestViewSet.destroy): the contest row
\* goes, and with it its M2M rows and, by on_delete=CASCADE, every submission
\* row that references it
ContestDestroy(u, k) ==
  /\ ~Contest[k].deleted
  /\ IF ~is_admin(u)
       THEN /\ view' = View("contests", u, 403, <<>>, {})
            /\ UNCHANGED <<submissions, Challenge, Contest>>
     ELSE LET K == [Contest EXCEPT ![k].deleted = TRUE, ![k].challenges = {}]
          IN  /\ Contest' = K
              /\ submissions' =
                   Without(submissions,
                           {i \in 1..Len(submissions) :
                              submissions[i].contest = Some(k)})
              /\ Challenge' = Orphaned(Contest[k].challenges, K)
              /\ view' = View("contests", u, 204, <<>>, {})
  /\ UNCHANGED <<now, groups, pc, req, call, grade, resp>>

\* PATCH /challenges/contests/<k>/ {"challenges": remove_ids}
\* (ContestViewSet.partial_update): the M2M rows of remove_ids are deleted
ContestPartialUpdate(u, k, remove_ids) ==
  /\ ~Contest[k].deleted
  /\ IF ~is_admin(u)
       THEN /\ view' = View("contests", u, 403, <<>>, {})
            /\ UNCHANGED <<Challenge, Contest>>
     ELSE LET K == [Contest EXCEPT ![k].challenges = @ \ remove_ids]
          IN  /\ Contest' = K
              /\ Challenge' = Orphaned(remove_ids, K)
              /\ view' = View("contests", u, 200, <<>>, {})
  /\ UNCHANGED <<submissions, now, groups, pc, req, call, grade, resp>>

\* --------------------------------------------------------------- catalog
\* POST /challenges/contests/ (ContestViewSet.create with
\* ContestCreateSerializer, a ModelSerializer without validate); k is the id
\* the new row gets
ContestCreate(u, k, start_time, end_time) ==
  /\ Contest[k].deleted
  /\ IF ~is_admin(u)
       THEN /\ view' = View("contests", u, 403, <<>>, {})
            /\ UNCHANGED Contest
     ELSE /\ Contest' = [Contest EXCEPT ![k] =
                           [is_active |-> TRUE, start_time |-> start_time,
                            end_time |-> end_time, challenges |-> {},
                            deleted |-> FALSE]]
          /\ view' = View("contests", u, 201, <<>>, {})
  /\ UNCHANGED <<submissions, Challenge, now, groups, pc, req, call, grade, resp>>

\* ChallengeUpdateSerializer.validate: TRUE when the body is refused.  instance
\* is None for a create, the challenge id for an update
ChallengeUpdateSerializer_validate(instance, question_type, contest_name, contest_start_time, contest_end_time) ==
  LET qtype == IF instance # None /\ question_type = None
                 THEN Some(Challenge[instance[1]].question_type)
               ELSE question_type
      any_contest_field ==
        contest_name # None \/ contest_start_time # None \/ contest_end_time # None
  IN  \/ qtype = Some("practice") /\ any_contest_field
      \/ /\ qtype = Some("competition") /\ any_contest_field /\ instance = None
         /\ \/ contest_name = None
            \/ contest_start_time = None \/ contest_end_time = None
            \/ contest_end_time[1] <= contest_start_time[1]
      \/ /\ instance # None /\ question_type # None
         /\ question_type[1] # Challenge[instance[1]].question_type
         /\ \E k \in ContestIds : instance[1] \in Contest[k].challenges

\* POST /challenges/ (ChallengeViewSet.create, ChallengeUpdateSerializer.create);
\* c and k are the ids the new rows get
ChallengeCreate(u, c, k, question_type, contest_name, contest_start_time, contest_end_time) ==
  /\ c \notin DOMAIN Challenge
  /\ Contest[k].deleted
  /\ LET qtype == IF question_type = None THEN "practice" ELSE question_type[1]
         row == [question_type |-> qtype, solution_type |-> <<"flag">>,
                 group_only |-> FALSE, challenge_score |-> None]
     IN  IF ~is_admin(u)
           THEN /\ view' = View("challenges", u, 403, <<>>, {})
                /\ UNCHANGED <<Challenge, Contest>>
         ELSE IF ChallengeUpdateSerializer_validate(None, question_type,
                   contest_name, contest_start_time, contest_end_time)
           THEN /\ view' = View("challenges", u, 400, <<>>, {})
                /\ UNCHANGED <<Challenge, Contest>>
         ELSE /\ Challenge' = Challenge @@ (c :> row)
              /\ view' = View("challenges", u, 201, <<>>, {})
              /\ IF qtype = "competition" /\ contest_name # None
                    /\ contest_start_time # None /\ contest_end_time # None
                   THEN Contest' = [Contest EXCEPT ![k] =
                                      [is_active |-> TRUE,
                                       start_time |-> contest_start_time[1],
                                       end_time |-> contest_end_time[1],
                                       challenges |-> {c}, deleted |-> FALSE]]
                 ELSE UNCHANGED Contest
  /\ UNCHANGED <<submissions, now, groups, pc, req, call, grade, resp>>

\* PATCH /challenges/<c>/ (ChallengeViewSet.update, partial,
\* ChallengeUpdateSerializer.update): question_type is set when sent; for a
\* competition challenge the times sent are written to the linked contest with
\* the latest start; a refusal inside update rolls the transaction back
ChallengeUpdate(u, c, question_type, contest_start_time, contest_end_time) ==
  /\ c \in DOMAIN Challenge
  /\ LET qtype == IF question_type = None THEN Challenge[c].question_type
                  ELSE question_type[1]
         any_contest_field == contest_start_time # None \/ contest_end_time # None
         linked == {k \in ContestIds : c \in Contest[k].challenges}
         latest == {k \in linked :
                      \A j \in linked : Contest[j].start_time <= Contest[k].start_time}
         refuse == /\ view' = View("challenges", u, 400, <<>>, {})
                   /\ UNCHANGED <<Challenge, Contest>>
     IN  IF ~is_admin(u)
           THEN /\ view' = View("challenges", u, 403, <<>>, {})
                /\ UNCHANGED <<Challenge, Contest>>
         ELSE IF ChallengeUpdateSerializer_validate(Some(c), question_type, None,
                   contest_start_time, contest_end_time)
           THEN refuse
         ELSE IF ~(qtype = "competition" /\ any_contest_field)
           THEN /\ Challenge' = [Challenge EXCEPT ![c].question_type = qtype]
                /\ view' = View("challenges", u, 200, <<>>, {})
                /\ UNCHANGED Contest
         ELSE IF linked = {} THEN refuse
         ELSE \E k \in latest :
                LET new_start == IF contest_start_time # None
                                   THEN contest_start_time[1]
                                 ELSE Contest[k].start_time
                    new_end == IF contest_end_time # None THEN contest_end_time[1]
                               ELSE Contest[k].end_time
                IN  IF new_end <= new_start THEN refuse
                    ELSE /\ Challenge' = [Challenge EXCEPT ![c].question_type = qtype]
                         /\ Contest' = [Contest EXCEPT ![k].start_time = new_start,
                                                        ![k].end_time = new_end]
                         /\ view' = View("challenges", u, 200, <<>>, {})
  /\ UNCHANGED <<submissions, now, groups, pc, req, call, grade, resp>>

\* PATCH /challenges/bulk-update/ {"ids", "contest_id", "question_type"}
\* (ChallengeViewSet.bulk_update)
BulkUpdate(u, ids, contest_id, question_type) ==
  /\ LET answer(code) == /\ view' = View("challenges", u, code, <<>>, {})
                         /\ UNCHANGED <<Challenge, Contest>>
         K == IF contest_id = None
                THEN [k \in ContestIds |->
                       [Contest[k] EXCEPT !.challenges = @ \ ids]]
              ELSE [Contest EXCEPT ![contest_id[1]].challenges = @ \cup ids]
     IN  IF ~is_admin(u) THEN answer(403)
         ELSE IF ids = {} THEN answer(400)
         ELSE IF ~(ids \subseteq DOMAIN Challenge) THEN answer(404)
         ELSE IF question_type \notin {None, Some("N/A"), Some("practice"),
                                       Some("competition")}
           THEN answer(400)
         ELSE IF contest_id # None
                 /\ (contest_id[1] \notin ContestIds \/ Contest[contest_id[1]].deleted)
           THEN answer(404)
         ELSE /\ Contest' = K
              /\ Challenge' =
                   [c \in DOMAIN Challenge |->
                     IF c \in ids /\ question_type # None
                       THEN [Challenge[c] EXCEPT !.question_type = question_type[1]]
                     ELSE Challenge[c]]
              /\ view' = View("challenges", u, 200, <<>>, {})
  /\ UNCHANGED <<submissions, now, groups, pc, req, call, grade, resp>>

\* ----------------------------------------------------------------- groups
\* UserGroup.objects.filter(group=g)
members(g) == {m \in UserGroup : m.group = g}

\* UserGroupViewSet.ensure_group_admin: TRUE when it does not raise
ensure_group_admin(g, u) ==
  \E m \in UserGroup : m.group = g /\ m.user = u /\ m.is_admin

\* the responses of the group endpoints carry the group or invitation they
\* are about
GroupView(endpoint, u, code, about) == View(endpoint, u, code, <<>>, {about})

\* POST /groups/ (UserGroupViewSet.create); g is the id the new row gets.  The
\* body carries no min_members, so the range check on min_members and
\* max_members never refuses.  The insert of the membership waits for an
\* uncommitted membership of the same user
GroupCreate(u, g, name, max_members) ==
  /\ ~Group[g].exists
  /\ LET nm == strip(name)
         refuse == /\ view' = GroupView("groups", u, 400, g)
                   /\ UNCHANGED <<Group, UserGroup>>
     IN  IF nm = <<>> THEN refuse
         ELSE IF \E m \in UserGroup : m.user = u THEN refuse
         ELSE IF \E h \in GroupIds :
                   Group[h].exists /\ lower(Group[h].name) = lower(nm)
           THEN refuse
         ELSE /\ \A t \in accepting : ~(t.written /\ t.inv[2] = u)
              /\ Group' = [Group EXCEPT ![g] = [exists |-> TRUE, name |-> nm,
                                                max_members |-> max_members]]
              /\ UserGroup' = UserGroup \cup
                                {[user |-> u, group |-> g, is_admin |-> TRUE]}
              /\ view' = GroupView("groups", u, 201, g)
  /\ UNCHANGED <<submissions, Challenge, Contest, now, pc, req, call, grade, resp,
                 GroupInvitation, accepting>>

\* DELETE /groups/<g>/ (UserGroupViewSet.destroy).  request.user.is_admin is
\* the bound method, which is truthy for every user, so ensure_group_admin is
\* never called.  The delete cascades to the memberships and invitations of
\* the group; it waits for the row locks of open accept transactions
GroupDestroy(u, g) ==
  /\ \A t \in accepting : t.inv[1] # g /\ g \notin t.declined
  /\ IF ~Group[g].exists
       THEN /\ view' = GroupView("groups", u, 404, g)
            /\ UNCHANGED <<Group, UserGroup, GroupInvitation>>
     ELSE /\ Group' = [Group EXCEPT ![g].exists = FALSE]
          /\ UserGroup' = UserGroup \ members(g)
          /\ GroupInvitation' = {v \in GroupInvitation : v.group # g}
          /\ view' = GroupView("groups", u, 204, g)
  /\ UNCHANGED <<submissions, Challenge, Contest, now, pc, req, call, grade, resp,
                 accepting>>

\* POST /groups/<g>/invitations/ {"user_id": target} (UserGroupViewSet.invite)
invite(u, g, target) ==
  /\ LET answer(code) == /\ view' = GroupView("invitations", u, code, <<g, target>>)
                         /\ UNCHANGED GroupInvitation
         old == {v \in GroupInvitation : v.group = g /\ v.user = target}
     IN  IF ~Group[g].exists THEN answer(404)
         ELSE IF ~ensure_group_admin(g, u) THEN answer(403)
         ELSE IF target \notin Users THEN answer(400)
         ELSE IF Cardinality(members(g)) >= Group[g].max_members THEN answer(400)
         ELSE IF \E m \in UserGroup : m.user = target THEN answer(200)
         ELSE IF \E v \in old : v.status = "pending" THEN answer(400)
         ELSE /\ GroupInvitation' =
                   (GroupInvitation \ old)
                     \cup {[group |-> g, user |-> target, status |-> "pending"]}
              /\ view' = GroupView("invitations", u, 201, <<g, target>>)
  /\ UNCHANGED <<submissions, Challenge, Contest, now, pc, req, call, grade, resp,
                 Group, UserGroup, accepting>>

\* the invitation row of group i[1] for user i[2]
Invitation(i) == {v \in GroupInvitation : v.group = i[1] /\ v.user = i[2]}

\* the open accept transactions: the invitation each has locked, whether its
\* writes are made, and the groups whose pending invitations it has declined.
\* Writes are seen by the other requests when the transaction commits
OpenAccepts == {t.inv : t \in accepting}

Locked ==
  OpenAccepts \cup {i \in GroupIds \X Users :
              \E t \in accepting : t.inv[2] = i[2] /\ i[1] \in t.declined}

\* POST /groups/invitations/<i>/accept/ (UserGroupViewSet.accept_invitation), up
\* to the capacity check: the invitation row is locked (a second request for it
\* waits), then the reads.  No row of the group is locked
accept_invitation(u, i) ==
  /\ i \notin Locked
  /\ LET answer(code) == /\ view' = GroupView("accept", u, code, i)
                         /\ UNCHANGED accepting
     IN  IF Invitation(i) = {} THEN answer(404)
         ELSE IF i[2] # u THEN answer(403)
         ELSE IF \E v \in Invitation(i) : v.status # "pending" THEN answer(400)
         ELSE IF \E m \in UserGroup : m.user = u THEN answer(400)
         ELSE IF Cardinality(members(i[1])) >= Group[i[1]].max_members
           THEN answer(400)
         ELSE /\ accepting' = accepting \cup
                                {[inv |-> i, written |-> FALSE, declined |-> {}]}
              /\ UNCHANGED view
  /\ UNCHANGED <<submissions, Challenge, Contest, now, pc, req, call, grade, resp,
                 Group, UserGroup, GroupInvitation>>

\* the writes of accept_invitation: the membership is inserted, the invitation
\* accepted and the user's other pending invitations declined.  The insert
\* fails on the unique user of UserGroup when the user has joined a group
\* meanwhile (500, rolled back).  The writes wait for the locks of another
\* open transaction of the same user
accept_invitation_join(i) ==
  /\ \E t \in accepting :
       /\ t.inv = i
       /\ ~t.written
       /\ \A o \in accepting \ {t} : o.inv[2] # i[2]
       /\ IF \E m \in UserGroup : m.user = i[2]
            THEN /\ accepting' = accepting \ {t}
                 /\ view' = GroupView("accept", i[2], 500, i)
          ELSE /\ accepting' = (accepting \ {t}) \cup
                 {[inv |-> i, written |-> TRUE,
                   declined |-> {v.group : v \in
                     {w \in GroupInvitation : /\ w.user = i[2]
                                              /\ w.status = "pending"
                                              /\ w.group # i[1]}}]}
               /\ UNCHANGED view
  /\ UNCHANGED <<submissions, Challenge, Contest, now, pc, req, call, grade, resp,
                 Group, UserGroup, GroupInvitation>>

\* the end of the transaction.atomic block of accept_invitation: the writes
\* become visible and the request is answered 200
accept_invitation_commit(i) ==
  /\ \E t \in accepting :
       /\ t.inv = i
       /\ t.written
       /\ accepting' = accepting \ {t}
       /\ UserGroup' = UserGroup \cup
                         {[user |-> i[2], group |-> i[1], is_admin |-> FALSE]}
       /\ GroupInvitation' =
            {IF v.user # i[2] THEN v
             ELSE IF v.group = i[1] THEN [v EXCEPT !.status = "accepted"]
             ELSE IF v.group \in t.declined THEN [v EXCEPT !.status = "declined"]
             ELSE v : v \in GroupInvitation}
       /\ view' = GroupView("accept", i[2], 200, i)
  /\ UNCHANGED <<submissions, Challenge, Contest, now, pc, req, call, grade, resp,
                 Group>>

\* two open accept transactions of one user that have both passed the checks
\* wait for each other (one for the other's invitation row, the other for the
\* first's uncommitted membership): the database ends one of them, which is
\* answered 500 and rolled back
accept_invitation_deadlock(i) ==
  /\ \E t \in accepting :
       /\ t.inv = i
       /\ ~t.written
       /\ \E o \in accepting \ {t} : o.inv[2] = i[2] /\ ~o.written
       /\ accepting' = accepting \ {t}
  /\ view' = GroupView("accept", i[2], 500, i)
  /\ UNCHANGED <<submissions, Challenge, Contest, now, pc, req, call, grade, resp,
                 Group, UserGroup, GroupInvitation>>

\* ------------------------------------------------------------ leaderboard
\* code point of a character
ord(ch) ==
  CASE ch = "A" -> 65 [] ch = "B" -> 66 [] ch = "a" -> 97 [] ch = "b" -> 98
    [] OTHER -> 32

\* s < t for Python strings
RECURSIVE StrLess(_, _)
StrLess(s, t) ==
  IF t = <<>> THEN FALSE
  ELSE IF s = <<>> THEN TRUE
  ELSE IF ord(Head(s)) # ord(Head(t)) THEN ord(Head(s)) < ord(Head(t))
  ELSE StrLess(Tail(s), Tail(t))

SetMax(S) == CHOOSE x \in S : \A y \in S : y <= x

RECURSIVE SetSum(_, _)
SetSum(f, S) ==
  IF S = {} THEN 0
  ELSE LET x == CHOOSE y \in S : TRUE IN f[x] + SetSum(f, S \ {x})

\* status__status__iexact = "solved"
iexact_solved(status) == status \in {"solved", "Solved"}

\* <table>.objects.filter(**solved_filter) of _build_rows
solved_filter(table, lb_type, contest) ==
  {i \in 1..Len(submissions) :
     /\ submissions[i].table = table
     /\ Challenge[submissions[i].challenge].question_type = lb_type
     /\ iexact_solved(submissions[i].status)
     /\ IF lb_type = "practice" THEN submissions[i].contest = None
        ELSE submissions[i].contest = contest}

_best_scores_sum(qs) ==
  {[user_id |-> g[1], challenge_id |-> g[2],
    best_score |->
      SetSum([i \in qs |-> submissions[i].score],
             {i \in qs : submissions[i].user = g[1]
                          /\ submissions[i].challenge = g[2]})] :
     g \in {<<submissions[i].user, submissions[i].challenge>> : i \in qs}}

\* _best_scores: values("user_id", "challenge_id").annotate(Max("user_score"))
_best_scores(qs) ==
  {[user_id |-> g[1], challenge_id |-> g[2],
    best_score |->
      SetMax({submissions[i].score :
                i \in {j \in qs : submissions[j].user = g[1]
                                   /\ submissions[j].challenge = g[2]}})] :
     g \in {<<submissions[i].user, submissions[i].challenge>> : i \in qs}}

\* the sort key of a leaderboard row, compared as Python compares tuples
sort_key_cased(r, q) ==
  \/ r.total_score > q.total_score
  \/ /\ r.total_score = q.total_score
     /\ \/ StrLess(r.username, q.username)
        \/ r.username = q.username /\ r.user_id < q.user_id

\* key=lambda r: (-r["total_score"], (r["username"] or "").lower(), r["user_id"])
sort_key(r, q) ==
  \/ r.total_score > q.total_score
  \/ /\ r.total_score = q.total_score
     /\ \/ StrLess(lower(r.username), lower(q.username))
        \/ lower(r.username) = lower(q.username) /\ r.user_id < q.user_id

\* rows.sort(key=...)
RECURSIVE sort(_)
sort(S) ==
  IF S = {} THEN <<>>
  ELSE LET m == CHOOSE r \in S : \A q \in S \ {r} : sort_key(r, q)
       IN  <<m>> \o sort(S \ {m})

\* the rows of s that satisfy keep, in order
RECURSIVE filter_search(_, _)
filter_search(s, search) ==
  IF s = <<>> THEN <<>>
  ELSE (IF Contains(lower(Head(s).username), search) THEN <<Head(s)>> ELSE <<>>)
         \o filter_search(Tail(s), search)

enumerate_shared(rows) ==
  [i \in 1..Len(rows) |->
    [rows[i] EXCEPT !.rank =
       1 + Cardinality({j \in 1..Len(rows) :
                          rows[j].total_score > rows[i].total_score})]]

\* for i, r in enumerate(rows, start=1): r["rank"] = i
enumerate(rows) == [i \in 1..Len(rows) |-> [rows[i] EXCEPT !.rank = i]]

\* LeaderboardViewSet._build_rows
_build_rows(lb_type, contest, search) ==
  LET rows0 == _best_scores(solved_filter("UserFlagSubmission", lb_type, contest))
                 \cup _best_scores(solved_filter("UserTextSubmission", lb_type,
                                                 contest))
      uids == {r.user_id : r \in rows0}
      best == [u \in uids |->
                [c \in {r.challenge_id : r \in {q \in rows0 : q.user_id = u}} |->
                   SetMax({r.best_score :
                             r \in {q \in rows0 : q.user_id = u
                                                  /\ q.challenge_id = c}})]]
      totals == [u \in uids |-> SetSum(best[u], DOMAIN best[u])]
      rows == sort({[user_id |-> user_id[u], username |-> username[u],
                     total_score |-> totals[u], rank |-> 0] : u \in uids})
      ranked == enumerate(rows)
  IN  IF search # <<>> THEN filter_search(ranked, search) ELSE ranked

\* LeaderboardPagination: one page of rows, None for a page past the last
PAGE_SIZE == 2
paginate_queryset(rows, page) ==
  IF page > 1 /\ (page - 1) * PAGE_SIZE >= Len(rows) THEN None
  ELSE Some(SubSeq(rows, (page - 1) * PAGE_SIZE + 1,
                   IF page * PAGE_SIZE < Len(rows) THEN page * PAGE_SIZE
                   ELSE Len(rows)))

list_published_or_not(u, mode, contest_id, search, page) ==
  LET lb_type == lower(strip(IF mode = None THEN <<"practice">> ELSE mode[1]))
      contest == IF contest_id \in ContestIds /\ ~Contest[contest_id].deleted
                   THEN Some(contest_id) ELSE None
      kind == IF lb_type = <<"practice">> THEN "practice" ELSE "competition"
      rows == _build_rows(kind, IF kind = "practice" THEN None ELSE contest,
                          lower(strip(search)))
      pg == paginate_queryset(rows, page)
      q == [lb_type |-> kind, contest |-> contest, search |-> lower(strip(search)),
            page |-> page]
      err(code) ==
        view' = [View("leaderboard", u, code, <<>>, {}) EXCEPT !.query = q]
  IN  IF lb_type \notin {<<"practice">>, <<"competition">>} THEN err(400)
      ELSE IF kind = "competition" /\ contest_id = "" THEN err(400)
      ELSE IF kind = "competition" /\ contest = None THEN err(404)
      ELSE IF pg = None THEN err(500)
      ELSE view' = [View("leaderboard", u, 200, pg[1], {}) EXCEPT !.query = q]

\* LeaderboardViewSet.list
list(u, mode, contest_id, search, page) ==
  LET lb_type == lower(strip(IF mode = None THEN <<"practice">> ELSE mode[1]))
      contest == IF contest_id \in ContestIds /\ ~Contest[contest_id].deleted
                   THEN Some(contest_id) ELSE None
      kind == IF lb_type = <<"practice">> THEN "practice" ELSE "competition"
      rows == _build_rows(kind, IF kind = "practice" THEN None ELSE contest,
                          lower(strip(search)))
      pg == paginate_queryset(rows, page)
      q == [lb_type |-> kind, contest |-> contest, search |-> lower(strip(search)),
            page |-> page]
      err(code) ==
        view' = [View("leaderboard", u, code, <<>>, {}) EXCEPT !.query = q]
  IN  IF lb_type \notin {<<"practice">>, <<"competition">>} THEN err(400)
      ELSE IF kind = "competition" /\ contest_id = "" THEN err(400)
      ELSE IF kind = "competition" /\ contest = None THEN err(404)
      ELSE IF kind = "competition" /\ ~Contest_publish_result[contest[1]]
        THEN err(403)
      ELSE IF pg = None THEN err(500)
      ELSE view' = [View("leaderboard", u, 200, pg[1], {}) EXCEPT !.query = q]

\* GET /leaderboard/?mode=&contest_id=&search=&page=
LeaderboardList(u, mode, contest_id, search, page) ==
  /\ list(u, mode, contest_id, search, page)
  /\ UNCHANGED <<submissions, Challenge, Contest, now, groups, pc, req, call, grade, resp>>

\* ----------------------------------------------------------------- reports
\* one_correct_solution: the canonical solutions the report carries
one_correct_solution(c) ==
  LET sol == lower(strip(Challenge[c].solution_type))
  IN  (IF sol \in {<<"flag">>, <<"flag and procedure">>}
         THEN {f.value : f \in {g \in FlagSolution : c \in g.challenges}} ELSE {})
      \cup
      (IF sol \in {<<"procedure">>, <<"flag and procedure">>}
         THEN {t.content : t \in {x \in TextSolution : c \in x.challenges}}
       ELSE {})

\* _build_rows_for_challenge: the submitted values and contents of the attempts
_build_rows_for_challenge(c) ==
  {submissions[i].value :
     i \in {j \in 1..Len(submissions) :
              /\ submissions[j].challenge = c
              /\ (submissions[j].group # None) = Challenge[c].group_only}}

generate_any_caller(u, challenge_id) ==
  IF challenge_id = NoSuchChallenge
    THEN view' = View("reports", u, 400, <<>>, {})
  ELSE IF challenge_id \notin ChallengeIds
    THEN view' = View("reports", u, 404, <<>>, {})
  ELSE IF lower(strip(Challenge[challenge_id].solution_type))
            \notin {<<"flag">>, <<"procedure">>, <<"flag and procedure">>}
    THEN view' = View("reports", u, 400, <<>>, {})
  ELSE view' = View("reports", u, 200, <<>>,
                    one_correct_solution(challenge_id)
                      \cup _build_rows_for_challenge(challenge_id))

\* ReportViewSet.generate behind permission_classes
\* [IsAuthenticated, IsAdminUser]
generate(u, challenge_id) ==
  IF ~is_admin(u) THEN view' = View("reports", u, 403, <<>>, {})
  ELSE IF challenge_id = NoSuchChallenge
    THEN view' = View("reports", u, 400, <<>>, {})
  ELSE IF challenge_id \notin ChallengeIds
    THEN view' = View("reports", u, 404, <<>>, {})
  ELSE IF lower(strip(Challenge[challenge_id].solution_type))
            \notin {<<"flag">>, <<"procedure">>, <<"flag and procedure">>}
    THEN view' = View("reports", u, 400, <<>>, {})
  ELSE view' = View("reports", u, 200, <<>>,
                    one_correct_solution(challenge_id)
                      \cup _build_rows_for_challenge(challenge_id))

\* POST /reports/generate/ {"challenge_id": challenge_id}
ReportGenerate(u, challenge_id) ==
  /\ generate(u, challenge_id)
  /\ UNCHANGED <<submissions, Challenge, Contest, now, groups, pc, req, call, grade, resp>>

Tick ==
  /\ now < MaxTime
  /\ now' = now + 1
  /\ UNCHANGED <<submissions, Challenge, Contest, pc, req, call, grade, resp, view,
                 groups>>

Next ==
  \/ \E a \in SubmitTargets, rv \in RawValues, rc \in RawContents :
       Submit(a[1], a[2], rv, rc)
  \/ \E a \in FlagSubmissionTargets, rv \in RawValues :
       FlagSubmissionCreate("u1", a[1], rv, a[2])
  \/ \E raw_text \in RawTexts : GenerateTextReturns(raw_text)
  \/ \E e \in SdkErrors : GenerateTextRaises(e)
  \/ Tick

Spec == Init /\ [][Next]_vars

\* the submission endpoints together with the operations on stored rows and on
\* contests
NextOps ==
  \/ Next
  \/ \E u \in {"u1", "u2"}, i \in 1..(MaxSubs + 1) : FlagSubmissionDestroy(u, i)
  \/ \E i \in 1..(MaxSubs + 1) :
       FlagSubmissionUpdate("u1", i, 1, Some(<<"a", "a">>), None)
  \/ \E u \in {"u1", "a1"} : ContestDestroy(u, "k1")
  \/ ContestPartialUpdate("a1", "k1", {3})

SpecOps == Init /\ [][NextOps]_vars

\* ------------------------------------------------------ catalog operations
\* a catalog in which every competition challenge is in exactly one contest
InitCatalog ==
  /\ submissions = <<>>
  /\ Challenge = Challenge0
  /\ Contest = [Contest0 EXCEPT !["k1"].challenges = {3, 4, 5},
                                !["k2"].challenges = {7}]
  /\ now = 0
  /\ pc = "idle"
  /\ req = NoReq
  /\ call = NoCall
  /\ grade = NoGrade
  /\ resp = NoResp
  /\ view = NoView
  /\ Group = Group0
  /\ UserGroup = UserGroup0
  /\ GroupInvitation = {}
  /\ accepting = {}

NewChallenge == 10

\* optional times of a request body
BodyTimes == {None, Some(0), Some(1)}

NextCatalog ==
  \/ \E u \in {"u1", "a1"}, start_time \in 0..1, end_time \in 0..1 :
       ContestCreate(u, "k4", start_time, end_time)
  \/ \E u \in {"u1", "a1"},
        question_type \in {None, Some("practice"), Some("competition")},
        contest_name \in {None, Some(<<"n">>)},
        contest_start_time \in BodyTimes, contest_end_time \in BodyTimes :
       ChallengeCreate(u, NewChallenge, "k4", question_type, contest_name,
                       contest_start_time, contest_end_time)
  \/ \E u \in {"u1", "a1"}, c \in {1, 3},
        question_type \in {None, Some("practice"), Some("competition")},
        contest_start_time \in BodyTimes, contest_end_time \in BodyTimes :
       ChallengeUpdate(u, c, question_type, contest_start_time, contest_end_time)
  \/ \E u \in {"u1", "a1"}, ids \in {{}, {3}, {1, 4}, {99}},
        contest_id \in {None, Some("k1"), Some("k2"), Some("k9")},
        question_type \in {None, Some("N/A"), Some("competition"), Some("hard")} :
       BulkUpdate(u, ids, contest_id, question_type)
  \/ \E u \in {"u1", "a1"} : ContestPartialUpdate(u, "k1", {3})
  \/ \E u \in {"u1", "a1"} : ContestDestroy(u, "k1")

SpecCatalog == InitCatalog /\ [][NextCatalog]_vars

\* -------------------------------------------------------- group operations
\* invitations by the group they are for and the invited user
InvitationIds == GroupIds \X {"u2", "u3"}

NextGroups ==
  \/ \E u \in {"u2", "a1"}, name \in {<<" ">>, <<"a">>, <<"b">>},
        max_members \in {0, 2} :
       GroupCreate(u, "g2", name, max_members)
  \/ \E u \in {"u1", "u3", "a1"}, g \in GroupIds : GroupDestroy(u, g)
  \/ \E u \in {"u1", "u2", "a1"}, g \in GroupIds, target \in {"u2", "u3", "u9"} :
       invite(u, g, target)
  \/ \E u \in {"u2", "u3"}, i \in InvitationIds : accept_invitation(u, i)
  \/ \E i \in InvitationIds : accept_invitation_join(i)
  \/ \E i \in InvitationIds : accept_invitation_commit(i)
  \/ \E i \in InvitationIds : accept_invitation_deadlock(i)

SpecGroups == Init /\ [][NextGroups]_vars

\* ------------------------------------------------- leaderboard and reports
\* stored rows of the user tables as the queries may find them: any status
\* name, any score
LogRow(u, c, k, table, status, score) ==
  [table |-> table, user |-> u, group |-> None, challenge |-> c, contest |-> k,
   value |-> FLAG, status |-> status, score |-> score, submitted_at |-> 0]

LogRows ==
  <<LogRow("u1", 1, None, "UserFlagSubmission", "solved", 3),
   LogRow("u1", 1, None, "UserFlagSubmission", "solved", 7),
   LogRow("u1", 1, None, "UserTextSubmission", "Solved", 2),
   LogRow("u1", 2, None, "UserTextSubmission", "solved", 3),
   LogRow("u2", 1, None, "UserFlagSubmission", "solved", 7),
   LogRow("a1", 1, None, "UserFlagSubmission", "solved", 7),
   LogRow("u2", 1, None, "UserFlagSubmission", "correct", 9),
   LogRow("u1", 3, Some("k1"), "UserFlagSubmission", "solved", 2),
   LogRow("u2", 5, Some("k2"), "UserFlagSubmission", "solved", 1)>>

MaxLog == 3

\* the logs of MaxLog rows, each in the order the rows are listed above
Logs ==
  {[i \in 1..MaxLog |-> LogRows[f[i]]] :
     f \in {g \in [1..MaxLog -> 1..Len(LogRows)] :
              \A i \in 1..(MaxLog - 1) : g[i] <= g[i + 1]}}

InitQuery ==
  /\ submissions \in Logs
  /\ Challenge = Challenge0
  /\ Contest = Contest0
  /\ now = 0
  /\ pc = "idle"
  /\ req = NoReq
  /\ call = NoCall
  /\ grade = NoGrade
  /\ resp = NoResp
  /\ view = NoView
  /\ Group = Group0
  /\ UserGroup = UserGroup0
  /\ GroupInvitation = {}
  /\ accepting = {}

\* mode and contest_id of a leaderboard query
Queries ==
  {<<None, "">>, <<Some(<<"practice">>), "k1">>, <<Some(<<"score">>), "">>,
   <<Some(<<" ", "competition">>), "">>, <<Some(<<" ", "competition">>), "k1">>,
   <<Some(<<" ", "competition">>), "k2">>, <<Some(<<" ", "competition">>), "k9">>}

NextQuery ==
  \/ \E q \in Queries, search \in {<<>>, <<"B", " ">>}, page \in 1..2 :
       LeaderboardList("u1", q[1], q[2], search, page)
  \/ \E u \in Users, challenge_id \in {NoSuchChallenge, 1, 7, 99} :
       ReportGenerate(u, challenge_id)

SpecQuery == InitQuery /\ [][NextQuery]_vars

\* ========================================================== properties
FlagTables == {"UserFlagSubmission", "GroupFlagSubmission"}
TextTables == {"UserTextSubmission", "GroupTextSubmission"}

\* rows the last answered request wrote, by kind
WroteFlag == {i \in 1..Len(resp.wrote) : resp.wrote[i].table \in FlagTables}
WroteText == {i \in 1..Len(resp.wrote) : resp.wrote[i].table \in TextTables}

\* the canonical flag values stored for challenge c
CanonicalFlags(c) == {f.value : f \in {g \in FlagSolution : c \in g.challenges}}

\* t is raw without its leading and trailing whitespace
IsTrimOf(t, raw) ==
  \E i \in 0..Len(raw) : \E j \in i..Len(raw) :
    /\ \A k \in 1..i : raw[k] = WS
    /\ \A k \in (j + 1)..Len(raw) : raw[k] = WS
    /\ t = SubSeq(raw, i + 1, j)
    /\ (t # <<>> => t[1] # WS /\ t[Len(t)] # WS)

\* C1: a flag submission is judged correct if and only if the submitted value
\* without its leading and trailing whitespace equals, atom for atom (case and
\* inner whitespace included), the canonical flag stored for the challenge
C1_FlagCorrectIffTrimmedEqual ==
  \A i \in WroteFlag :
    resp.wrote[i].status = "correct"
      <=> \E f \in CanonicalFlags(resp.challenge) : IsTrimOf(f, resp.raw_value[1])

\* a padded value was judged correct
C1_Witness ==
  \E i \in WroteFlag :
    /\ resp.wrote[i].status = "correct"
    /\ resp.raw_value[1] # resp.wrote[i].value

\* C2: a flag row written by POST /submission/<id>/ has status correct and the challenge's flag_score when the
\* trimmed value matches the canonical flag, and status incorrect (not pending)
\* and score 0 when it does not
C2_FlagRowStatusAndScore ==
  \A i \in WroteFlag :
    LET row == resp.wrote[i]
        cs == Challenge[row.challenge].challenge_score
        matches == \E f \in CanonicalFlags(row.challenge) :
                     IsTrimOf(f, resp.raw_value[1])
    IN  (resp.endpoint = "submission" /\ cs # None /\ cs[1].flag_score > 0) =>
          IF matches THEN row.status = "correct" /\ row.score = cs[1].flag_score
          ELSE row.status = "incorrect" /\ row.score = 0

\* the canonical text solution stored for challenge c
CanonicalText(c) == {t.content : t \in {x \in TextSolution : c \in x.challenges}}

\* C3: when the grading call returns a result with status correct or incorrect,
\* the procedure row carries that status and the grader's clamped score
C3_ProcedureRowCarriesVerdict ==
  \A i \in WroteText :
    (grade.out = "returned" /\ grade.status \in {<<"correct">>, <<"incorrect">>}) =>
      /\ <<resp.wrote[i].status>> = grade.status
      /\ resp.wrote[i].score = grade.score

\* C4: when the grading client could not evaluate the submission (no call, a
\* call that raised, or a model output that did not parse), the procedure row
\* has status pending and score 0
C4_Unevaluated ==
  \/ grade.out \in {"none", "raised"}
  \/ grade.reply = <<"I could not format the evaluation properly">>

C4_UnevaluatedIsPending ==
  \A i \in WroteText :
    C4_Unevaluated => resp.wrote[i].status = "pending" /\ resp.wrote[i].score = 0

\* C5: every grading call whose provider client could be built returns a result
\* object and never raises
C5_CallAlwaysReturns ==
  (grade.out # "none" /\ grade.exc # "RuntimeError") => grade.out = "returned"

\* C6: the score the grading client returns, and the score stored on the
\* procedure row, lie in [0, max_score], max_score being the maximum handed to
\* the client
C6_ScoreInRange ==
  /\ grade.out = "returned" => (0 <= grade.score /\ grade.score <= grade.max_score)
  /\ \A i \in WroteText :
       /\ 0 <= resp.wrote[i].score
       /\ resp.wrote[i].score <=
            (IF grade.out = "returned" THEN grade.max_score ELSE 0)

\* a model score above max_score was clamped to max_score: on challenge 2
\* (procedure_score 3) no model answer in Scores but 99999 yields 3
C6_Witness ==
  /\ grade.out = "returned"
  /\ grade.max_score = 3
  /\ \E i \in WroteText : resp.wrote[i].score = 3

\* C7: the explanation the grading client returns never contains the canonical
\* solution of the challenge
C7_ReplyHidesSolution ==
  grade.out = "returned" =>
    \A t \in CanonicalText(resp.challenge) : ~Contains(grade.reply, t)

\* SDK failures that are transient in the sense of the specification: a timeout
\* or a rate limit (HTTP 429)
TransientFailures ==
  {<<"api", "timeout", "error">>, <<"rate", "limit", "error">>,
   <<"api", "status", "error">>}

\* a step of the grading call that ends with another provider request pending
Retried == pc = "llm" /\ pc' = "llm" /\ call'.requests = call.requests + 1

\* the bound, the backoff and the end of a grading call, step by step: a call
\* in its loop has made at most LLM_MAX_RETRIES requests so far, so at most
\* LLM_MAX_RETRIES + 1 with the next one; every step of the loop either ends
\* the call or uses up one attempt after a delay of 0.6 s x the number of
\* requests made, so the call ends after at most LLM_MAX_RETRIES + 1 steps
C8_Bounded ==
  pc = "llm" =>
    /\ call.requests <= LLM_MAX_RETRIES
    /\ call.attempt = call.requests
    /\ \/ pc' = "idle" /\ submissions' # submissions
       \/ /\ Retried
          /\ call'.attempt = call.attempt + 1
          /\ call'.sleeps = Append(call.sleeps, SLEEP_TENTHS * call'.requests)
       \/ UNCHANGED <<pc, req, call>>
    /\ (pc' = "idle" /\ grade'.out = "raised") => call.attempt = LLM_MAX_RETRIES

\* C8 as stated: at most LLM_MAX_RETRIES + 1 requests, a linear delay before
\* each retry, an end to every call, and a retry only after a transient failure
\* (timeout, rate limit): a request that fails non-transiently is not retried
C8_OnlyTransientRetried ==
  [][C8_Bounded /\ (Retried => call'.last_exc \in TransientFailures)]_vars

\* C8 amended: at most LLM_MAX_RETRIES + 1 requests, a linear delay before each
\* retry and an end to every call; every failed provider request, whatever its
\* cause, is retried while attempts remain, and a provider response ends the call
C8_EveryFailureRetried ==
  [][C8_Bounded]_vars

\* the third request of a call is pending after the delays 0.6 s and 1.2 s, the
\* second request having failed with an authentication error
C8_Witness ==
  /\ pc = "llm"
  /\ call.requests = LLM_MAX_RETRIES
  /\ call.sleeps = <<SLEEP_TENTHS, 2 * SLEEP_TENTHS>>
  /\ call.last_exc = <<"authentication", "error">>

\* the request answered by r carried a field of a kind the challenge's
\* solution_type does not permit
NonPermittedKind(r) ==
  /\ r.endpoint = "submission"
  /\ r.challenge \in ChallengeIds
  /\ \/ Challenge[r.challenge].solution_type = <<"flag">> /\ r.raw_content # None
     \/ Challenge[r.challenge].solution_type = <<"procedure">> /\ r.raw_value # None

\* C9: a request that carries the field of a kind the challenge does not permit
\* is rejected and writes no row, also when it carries the permitted kind too
C9_NonPermittedKindRejected ==
  [][(resp' # resp /\ NonPermittedKind(resp')) =>
       (resp'.code \in {400, 403} /\ submissions' = submissions)]_vars

\* content sent along with a value to a flag-only challenge was rejected
C9_Witness ==
  /\ resp.endpoint = "submission"
  /\ resp.code = 400
  /\ resp.detail = "does not accept procedure submissions"
  /\ resp.raw_value # None
  /\ resp.raw_content # None
  /\ resp.wrote = <<>>

NonBlank(raw) == raw # None /\ \E k \in 1..Len(raw[1]) : raw[1][k] # WS

LinkedContests(c) == {k \in ContestIds : c \in Contest[k].challenges}

\* a competition challenge linked to zero or to several contests
BadLinkage(c) ==
  /\ c \in ChallengeIds
  /\ Challenge[c].question_type = "competition"
  /\ Cardinality(LinkedContests(c)) # 1

\* the request answered by r had a body that passes validation on a challenge
\* accepting both kinds: a value or a content, none of them blank
WellFormedBody(r) ==
  /\ r.raw_value # None \/ r.raw_content # None
  /\ r.raw_value # None => NonBlank(r.raw_value)
  /\ r.raw_content # None => NonBlank(r.raw_content)
  /\ Challenge[r.challenge].solution_type = <<"flag and procedure">>

Open(k) ==
  /\ Contest[k].is_active
  /\ Contest[k].start_time <= now
  /\ now <= Contest[k].end_time

\* this step takes a request on challenge c past its checks: the request is
\* answered with rows written, or its grading call starts
AcceptedFor(c) ==
  /\ pc = "idle"
  /\ \/ submissions' # submissions /\ resp'.challenge = c
     \/ pc' = "llm" /\ req'.challenge = c

\* C11: a submission to a competition challenge linked to exactly one contest
\* is accepted only if, when it is checked, that contest is active and now is
\* inside its window (bounds included); otherwise nothing is written
C11_OnlyOpenContestAccepts ==
  [][\A c \in ChallengeIds : \A k \in ContestIds :
       (Challenge[c].question_type = "competition" /\ LinkedContests(c) = {k}
        /\ AcceptedFor(c)) => Open(k)]_vars

\* C12: submissions are append-only: every step leaves each stored row in
\* place with the same actor, challenge, contest, value or content, status,
\* score and timestamp; no operation updates or deletes a row
C12_AppendOnly ==
  [][/\ Len(submissions') >= Len(submissions)
     /\ SubSeq(submissions', 1, Len(submissions)) = submissions]_vars

\* the user with User.id n
UserOf(n) == CHOOSE u \in Users : user_id[u] = n

\* the scores of the stored rows of user u on challenge c that are in the scope
\* of the leaderboard query q: rows of the user tables with status solved, of
\* practice challenges without a contest, or of the contest's challenges
InScopeScores(u, c, q) ==
  {submissions[i].score :
     i \in {j \in 1..Len(submissions) :
              /\ submissions[j].user = u
              /\ submissions[j].challenge = c
              /\ submissions[j].table \in {"UserFlagSubmission", "UserTextSubmission"}
              /\ submissions[j].status \in {"solved", "Solved"}
              /\ Challenge[c].question_type = q.lb_type
              /\ submissions[j].contest =
                   (IF q.lb_type = "practice" THEN None ELSE q.contest)}}

\* the largest element of a non-empty set of scores, 0 for the empty set
Best(S) == IF S = {} THEN 0 ELSE CHOOSE x \in S : \A y \in S : y <= x

RECURSIVE TotalOf(_, _, _)
TotalOf(u, q, C) ==
  IF C = {} THEN 0
  ELSE LET c == CHOOSE x \in C : TRUE
       IN  Best(InScopeScores(u, c, q)) + TotalOf(u, q, C \ {c})

Listed == view.endpoint = "leaderboard" /\ view.code = 200

C14_Ordered ==
  Listed =>
    \A i \in 1..(Len(view.results) - 1) :
      LET r == view.results[i]
          t == view.results[i + 1]
      IN  \/ r.total_score > t.total_score
          \/ /\ r.total_score = t.total_score
             /\ StrLess(lower(r.username), lower(t.username))
          \/ /\ r.total_score = t.total_score
             /\ lower(r.username) = lower(t.username)
             /\ r.user_id < t.user_id

\* "a" is listed before "B" on equal totals, though "B" < "a" as strings
C14_Witness ==
  /\ Listed
  /\ Len(view.results) = 2
  /\ view.results[1].total_score = view.results[2].total_score
  /\ view.results[1].username = <<"a">>
  /\ view.results[2].username = <<"B">>

\* C15: a competition query for an existing contest whose publish_result is
\* false is answered 403, whatever the search term and the stored rows, and
\* never 200
C15_UnpublishedIs403 ==
  (/\ view.endpoint = "leaderboard"
   /\ view.query.lb_type = "competition"
   /\ view.query.contest # None
   /\ ~Contest_publish_result[view.query.contest[1]])
    => view.code = 403 /\ view.results = <<>>

\* a query with a search term for unpublished contest k2, which has a solved
\* row stored, was answered 403
C15_Witness ==
  /\ view.endpoint = "leaderboard"
  /\ view.query.contest = Some("k2")
  /\ view.query.search # <<>>
  /\ view.code = 403
  /\ \E i \in 1..Len(submissions) :
       submissions[i].contest = Some("k2") /\ submissions[i].status = "solved"

\* C16: a report request of a caller who is not an admin is answered 403 and
\* carries no canonical solution and no submission content
C16_ReportAdminOnly ==
  (view.endpoint = "reports" /\ ~is_admin(view.user))
    => view.code = 403 /\ view.data = {}

\* a user without a role was refused while an admin's request for the same
\* stored rows would carry the canonical flag
C16_Witness ==
  /\ view.endpoint = "reports"
  /\ view.user = "u2"
  /\ view.code = 403
  /\ one_correct_solution(1) # {}

\* C17: POST /submission/<id>/ answers 201 when the attempt is recorded, 403
\* for an eligibility denial (contest not accepting submissions, must join a
\* group, kind not accepted, empty submission), 404 for an unknown challenge
\* and 409 for a competition challenge linked to zero or several contests
C17_StatusCodes ==
  resp.endpoint = "submission" =>
    /\ resp.wrote # <<>> => resp.code = 201
    /\ resp.challenge \notin ChallengeIds => resp.code = 404
    /\ resp.detail \in {"contest is not active",
                        "contest is not accepting submissions",
                        "must join a group",
                        "does not accept flag submissions",
                        "does not accept procedure submissions",
                        "provide at least one of value or content"}
         => resp.code = 403
    /\ resp.detail \in {"not linked to any contest", "linked to multiple contests"}
         => resp.code = 409

\* the last answered request carried a value and a content to a challenge that
\* accepts both kinds
BothKinds ==
  /\ resp.endpoint = "submission"
  /\ resp.challenge \in ChallengeIds
  /\ Challenge[resp.challenge].solution_type = <<"flag and procedure">>
  /\ NonBlank(resp.raw_value)
  /\ NonBlank(resp.raw_content)

\* C18: a request with a value and a content to a flag-and-procedure challenge
\* that is recorded leaves exactly two rows, a flag row and then a procedure
\* row; the flag row is correct exactly when the trimmed value is the canonical
\* flag, and scores only then, whatever the grading call gave for the content
C18_TwoIndependentRows ==
  (BothKinds /\ resp.wrote # <<>>) =>
    /\ Len(resp.wrote) = 2
    /\ resp.wrote[1].table \in FlagTables
    /\ resp.wrote[2].table \in TextTables
    /\ resp.wrote[1].status = "correct"
         <=> \E f \in CanonicalFlags(resp.challenge) :
               IsTrimOf(f, resp.raw_value[1])
    /\ resp.wrote[1].status # "correct" => resp.wrote[1].score = 0
    /\ resp.wrote[2].value = strip(resp.raw_content[1])

\* a correct flag row with its score next to a procedure row whose grading
\* call raised
C18_Witness ==
  /\ BothKinds
  /\ Len(resp.wrote) = 2
  /\ resp.wrote[1].status = "correct"
  /\ resp.wrote[1].score = 2
  /\ grade.out = "raised"
  /\ resp.wrote[2].status = "pending"

\* C19: whenever POST /submission/<id>/ writes a row with a contest reference,
\* at that moment
\* the row's challenge is linked to exactly that contest and the contest is
\* active and inside its window
C19_ContestValidAtWrite ==
  [][\A i \in (Len(submissions) + 1)..Len(submissions') :
       (resp'.endpoint = "submission" /\ submissions'[i].contest # None) =>
         LET k == submissions'[i].contest[1]
         IN  /\ {x \in ContestIds : submissions'[i].challenge
                                       \in Contest'[x].challenges} = {k}
             /\ Contest'[k].is_active
             /\ Contest'[k].start_time <= now'
             /\ now' <= Contest'[k].end_time]_vars

\* C20: every stored row with status correct and a positive score, on a
\* practice challenge or in a contest whose results are published, is counted
\* by the leaderboard of its scope: the leaderboard lists the row's actor with
\* a total of at least the row's score
C20_CorrectRowsAreListed ==
  \A i \in 1..Len(submissions) :
    LET r == submissions[i]
        board == _build_rows(Challenge[r.challenge].question_type, r.contest, <<>>)
    IN  (/\ r.status = "correct"
         /\ r.score > 0
         /\ r.contest # None => Contest_publish_result[r.contest[1]])
          => /\ r.group = None
             /\ \E j \in 1..Len(board) :
                  /\ board[j].user_id = user_id[r.user]
                  /\ board[j].total_score >= r.score

\* C21: the rows of an unfiltered leaderboard carry the ranks 1, 2, ..., n in
\* list order: the row at position i of page p has rank (p - 1) * PAGE_SIZE + i,
\* also when its total equals that of the row before it
C21_SequentialRanks ==
  (Listed /\ view.query.search = <<>>) =>
    \A i \in 1..Len(view.results) :
      view.results[i].rank = (view.query.page - 1) * PAGE_SIZE + i

\* two rows with equal totals are listed with ranks 1 and 2
C21_Witness ==
  /\ Listed
  /\ view.query.search = <<>>
  /\ Len(view.results) = 2
  /\ view.results[1].total_score = view.results[2].total_score
  /\ view.results[1].rank = 1
  /\ view.results[2].rank = 2

\* C22: every stored row has no contest reference exactly when its challenge is
\* a practice challenge, and every row of a competition challenge references
\* the one contest that challenge is linked to, whichever endpoint wrote it
C22_ContestReferenceMatchesType ==
  \A i \in 1..Len(submissions) :
    LET r == submissions[i]
    IN  /\ r.contest = None <=> Challenge[r.challenge].question_type = "practice"
        /\ Challenge[r.challenge].question_type = "competition" =>
             r.contest # None /\ LinkedContests(r.challenge) = {r.contest[1]}

\* the request answered by r has a body with a value or a content, none of them
\* blank, each of a kind the challenge's solution_type permits, and its
\* challenge is a practice challenge or linked to exactly one open contest
OtherRulesHold(r) ==
  LET c == r.challenge
  IN  /\ r.raw_value # None \/ r.raw_content # None
      /\ r.raw_value # None =>
           /\ NonBlank(r.raw_value)
           /\ Challenge[c].solution_type \in {<<"flag">>, <<"flag and procedure">>}
      /\ r.raw_content # None =>
           /\ NonBlank(r.raw_content)
           /\ Challenge[c].solution_type
                \in {<<"procedure">>, <<"flag and procedure">>}
      /\ Challenge[c].question_type = "competition" =>
           \E k \in ContestIds : LinkedContests(c) = {k} /\ Open(k)

\* C23: on a group_only challenge every recorded row has as its actor the
\* group of the submitting user's membership; a user without a membership is
\* denied and nothing is recorded, with the reason "must join a group" when the
\* request is otherwise eligible; a member whose request is otherwise eligible
\* is allowed
C23_GroupActor ==
  [][(/\ resp' # resp
      /\ resp'.endpoint = "submission"
      /\ resp'.challenge \in ChallengeIds
      /\ Challenge[resp'.challenge].group_only) =>
       /\ \A i \in 1..Len(resp'.wrote) :
            /\ resp'.wrote[i].table \in {"GroupFlagSubmission", "GroupTextSubmission"}
            /\ resp'.wrote[i].group # None
            /\ resp'.wrote[i].group = group_membership[resp'.wrote[i].user]
       /\ group_membership[resp'.user] = None =>
            /\ submissions' = submissions
            /\ resp'.wrote = <<>>
            /\ resp'.code \in {400, 403}
            /\ OtherRulesHold(resp') => resp'.detail = "must join a group"
       /\ (pc = "idle" /\ group_membership[resp'.user] # None
           /\ OtherRulesHold(resp')) =>
            resp'.code = 201 /\ resp'.wrote # <<>>]_vars

\* the request answered by r violates eligibility rule n: 1 contest linkage,
\* 2 contest active and inside its window, 3 group membership, 4 submission
\* kind permitted, 5 non-empty submission
Violates(r, n) ==
  LET c == r.challenge
      st == Challenge[c].solution_type
  IN  CASE n = 1 -> BadLinkage(c)
        [] n = 2 -> /\ Challenge[c].question_type = "competition"
                    /\ \E k \in ContestIds : LinkedContests(c) = {k} /\ ~Open(k)
        [] n = 3 -> Challenge[c].group_only /\ group_membership[r.user] = None
        [] n = 4 -> \/ r.raw_value # None
                       /\ st \notin {<<"flag">>, <<"flag and procedure">>}
                    \/ r.raw_content # None
                       /\ st \notin {<<"procedure">>, <<"flag and procedure">>}
        [] OTHER -> \/ r.raw_value = None /\ r.raw_content = None
                    \/ r.raw_value # None /\ ~NonBlank(r.raw_value)
                    \/ r.raw_content # None /\ ~NonBlank(r.raw_content)

\* the denial reasons of rule n
Reasons(n) ==
  CASE n = 1 -> {"not linked to any contest", "linked to multiple contests"}
    [] n = 2 -> {"contest is not active", "contest is not accepting submissions"}
    [] n = 3 -> {"must join a group"}
    [] n = 4 -> {"does not accept flag submissions",
                 "does not accept procedure submissions", "solution_type unknown"}
    [] OTHER -> {"provide at least one of value or content",
                 "field may not be blank"}

\* C24: a request that violates eligibility rules is denied with a reason of
\* the lowest-numbered rule it violates, the rules being numbered 1 contest
\* linkage, 2 contest active and in window, 3 group membership, 4 kind
\* permitted, 5 non-empty submission
C24_LowestRuleDenies ==
  [][(/\ resp' # resp
      /\ resp'.endpoint = "submission"
      /\ resp'.challenge \in ChallengeIds) =>
       \A n \in 1..5 :
         (Violates(resp', n) /\ \A m \in 1..(n - 1) : ~Violates(resp', m)) =>
           /\ resp'.wrote = <<>>
           /\ resp'.detail \in Reasons(n)]_vars

\* the maximum score of a kind as stated: the configured score, 1 for a
\* challenge without score configuration
MaxScore(c, kind) ==
  LET cs == Challenge[c].challenge_score
  IN  IF cs = None THEN 1
      ELSE IF kind = "flag" THEN cs[1].flag_score ELSE cs[1].procedure_score

\* C25: a correct flag row written by POST /submission/<id>/ carries the
\* challenge's configured flag_score, and 1 on a challenge without score
\* configuration; the grading call is made with the configured
\* procedure_score, and with 1 on such a challenge; a challenge without score
\* configuration makes no request fail; all this for user and group rows alike
C25_MaxScoreDefaultsToOne ==
  /\ resp.detail # "challenge has no challenge_score"
  /\ \A i \in WroteFlag :
       LET row == resp.wrote[i]
       IN  (/\ resp.endpoint = "submission"
            /\ row.status = "correct"
            /\ MaxScore(row.challenge, "flag") > 0)
             => row.score = MaxScore(row.challenge, "flag")
  /\ (pc = "llm" /\ MaxScore(req.challenge, "procedure") > 0)
       => req.ms = MaxScore(req.challenge, "procedure")

\* C26: every contest that exists has its end_time after its start_time: a
\* creation with end_time at or before start_time, through the contest endpoint
\* or together with a competition challenge, stores nothing
C26_EndAfterStart ==
  \A k \in ContestIds : ~Contest[k].deleted => Contest[k].end_time > Contest[k].start_time

\* C27: after every catalog operation each challenge whose question_type is
\* competition is linked to exactly one contest, and a challenge that the
\* operation left linked to no contest has question_type N/A
C27_CompetitionLinkedOnce ==
  [][/\ \A c \in DOMAIN Challenge' :
          Challenge'[c].question_type = "competition" =>
            Cardinality({k \in ContestIds : c \in Contest'[k].challenges}) = 1
     /\ \A c \in DOMAIN Challenge :
          (/\ LinkedContests(c) # {}
           /\ \A k \in ContestIds : c \notin Contest'[k].challenges)
            => Challenge'[c].question_type = "N/A"]_vars

\* C28: a group never has more members than its max_members, whatever the
\* interleaving of the accept_invitation requests of different invited users
C28_AtMostMaxMembers ==
  \A g \in GroupIds :
    Group[g].exists => Cardinality(members(g)) <= Group[g].max_members

\* a step that answers DELETE /groups/<g>/ for user u
DestroyAnswered(u, g) ==
  /\ <<view, Group>>' # <<view, Group>>
  /\ view'.endpoint = "groups"
  /\ view'.user = u
  /\ view'.data = {g}
  /\ view'.code \in {204, 403, 404}

\* C29: DELETE /groups/<g>/ by an authenticated user who is neither an admin
\* member of the group nor a site admin is answered 403 and leaves the group
\* and its memberships unchanged
C29_OnlyAdminsDelete ==
  [][\A u \in Users, g \in GroupIds :
       (/\ DestroyAnswered(u, g)
        /\ Group[g].exists
        /\ ~ensure_group_admin(g, u)
        /\ ~is_admin(u))
         => /\ view'.code = 403
            /\ Group' = Group
            /\ UserGroup' = UserGroup]_vars

\* a step that answers POST /groups/invitations/<i>/accept/
AcceptAnswered(i) ==
  /\ <<view, UserGroup, GroupInvitation>>' # <<view, UserGroup, GroupInvitation>>
  /\ view'.endpoint = "accept"
  /\ view'.data = {i}

\* C30: a user has at most one membership; an accept answered 200 is the
\* invited user's, on a pending invitation, of a user without group, and
\* leaves the invitation accepted, the user a non-admin member of the inviting
\* group and none of the user's other invitations pending; an accept answered
\* otherwise changes no invitation and no membership
C30_OneGroupPerUser ==
  [][/\ \A u \in Users : Cardinality({m \in UserGroup' : m.user = u}) <= 1
     /\ \A i \in InvitationIds :
          AcceptAnswered(i) =>
            IF view'.code = 200
              THEN /\ view'.user = i[2]
                   /\ \E v \in Invitation(i) : v.status = "pending"
                   /\ ~\E m \in UserGroup : m.user = i[2]
                   /\ [group |-> i[1], user |-> i[2], status |-> "accepted"]
                        \in GroupInvitation'
                   /\ [user |-> i[2], group |-> i[1], is_admin |-> FALSE]
                        \in UserGroup'
                   /\ ~\E v \in GroupInvitation' :
                        v.user = i[2] /\ v.group # i[1] /\ v.status = "pending"
            ELSE /\ UserGroup' = UserGroup
                 /\ GroupInvitation' = GroupInvitation]_vars

====
